---- MODULE Spec2Model ----
(***************************************************************************)
(* Tenant-scoped identity: the browser's persisted session (localStorage), *)
(* the two request gateways (auth.jsx apiClient and utils/apiClient.js     *)
(* ApiClient), login / renewal / logout / SSO callback, and the invitation *)
(* state machine the SSO callback talks to.                                *)
(***************************************************************************)
EXTENDS Integers, FiniteSets, Sequences, TLC

\* ------------------------------------------------------------------------
\* Bounds
\* ------------------------------------------------------------------------
\* number of credential pairs the identity provider / backend issues in a run
MaxTok == 2
\* number of invitation records the server creates in a run
MaxInv == 2
\* number of invitation tokens the server generates in a run
MaxInvTok == 2
\* the last instant of the server's clock
MaxTime == 2

\* ------------------------------------------------------------------------
\* Values
\* ------------------------------------------------------------------------
\* a JSON field that is missing (JavaScript undefined)
Absent == "<absent>"
\* localStorage.getItem of a key that is not stored (JavaScript null)
NoItem == "<null>"
\* a request header that is not set
NoHeader == "<unset>"
\* the tenant claims the identity provider puts into a credential
TenantClaims == {"acme", "globex"}
\* the concurrent callers of a gateway
Calls == {"c1", "c2"}
\* the concurrent accept transactions on the server
Acceptors == {"a1", "a2"}
\* the (email, tenantId) pairs invitations are created for
Invitees == {<<"alice@x.com", "acme">>, <<"alice@x.com", "globex">>}
\* HTTP statuses of the resource API: success, authorization failure, other
Statuses == {200, 401, 500}
\* the shapes of a credential string: a three-segment JWT, and the malformed
\* ones (no '.', a payload that is not base64, a payload that is not JSON)
Forms == {"jwt", "oneSeg", "badB64", "badJson"}

\* an access credential: id names the issued string, form and tenant are
\* what its text contains
NoTok == [id |-> 0, form |-> "none", tenant |-> Absent]
Jwt(i, t) == [id |-> i, form |-> "jwt", tenant |-> t]

\* JavaScript truthiness of a string-or-undefined value
Truthy(s) == s \notin {Absent, NoItem, ""}

\* ------------------------------------------------------------------------
\* Credential codec
\* ------------------------------------------------------------------------
\* the try block of both decoders: split('.')[1], atob, JSON.parse
Decodable(tok) == tok.form = "jwt"

\* AuthProvider.decodeTokenPayload: tenant: payload.tenant || " "
AuthDecodeTokenPayload(tok) ==
    IF Decodable(tok)
    THEN [ok |-> TRUE, tenant |-> IF Truthy(tok.tenant) THEN tok.tenant ELSE " "]
    ELSE [ok |-> FALSE, tenant |-> Absent]

\* module-level decodeTokenPayload: tenant_slug: payload.tenant
decodeTokenPayload(tok) ==
    IF Decodable(tok)
    THEN [ok |-> TRUE, tenant_slug |-> tok.tenant]
    ELSE [ok |-> FALSE, tenant_slug |-> Absent]

\* ------------------------------------------------------------------------
\* State
\* ------------------------------------------------------------------------
VARIABLES
    ls_access,    \* localStorage 'access_token' (a credential, or NoTok)
    ls_refresh,   \* localStorage 'refresh_token' (id of the pair, 0 = none)
    ls_tenant,    \* localStorage 'current_tenant' (.slug of the JSON, or NoItem)
    location,     \* the page shown: "/", "/login" or "/admin/tenants"
    issued,       \* number of credential pairs issued so far
    call,         \* the gateway calls in flight
    rf,           \* AuthProvider.refreshAccessToken awaiting the provider
    lo,           \* AuthProvider.logout awaiting the provider's logout endpoint
    loginResult,  \* what the last login() returned: "none", "success", "error"
    token         \* the access credential the auth context exposes (useState)

\* the server's invitation state machine
VARIABLES
    inv,          \* the invitation records, by id (a sequence)
    now,          \* the server's clock
    nextTok,      \* the next fresh invitation token
    acc,          \* the accept transactions in progress
    provisioned,  \* per invitation, how often its membership was provisioned
    lastResult    \* the outcome of the last create / resend / cancel

\* what the pages of the admin client hold
VARIABLES
    users,        \* UserManagementTable: the rows of the last fetchUsers
    sentState,    \* the state parameter this browser last sent to the provider
    cb,           \* SSOCallbackPage: the handler's position and its locals
    page,         \* AcceptInvitationPage: its React state and its lookup
    req,          \* the last request UserManagementTable sent
    probe         \* the last string handed to a decoder, and what came of it

cvars == <<ls_access, ls_refresh, ls_tenant, location, issued, call, rf, lo,
           loginResult, token>>
srv == <<inv, now, nextTok, acc, provisioned, lastResult>>
ui == <<users, sentState, cb, page, req, probe>>
vars == <<cvars, srv, ui>>
store == <<ls_access, ls_refresh, ls_tenant>>

IdleCall == [pc |-> "idle", gw |-> "none", hdrAuth |-> NoTok,
             hdrTenant |-> NoHeader, cred |-> 0, sent |-> 0, renewals |-> 0,
             status |-> 0, result |-> "none"]

InitClient ==
    /\ ls_access = NoTok
    /\ ls_refresh = 0
    /\ ls_tenant = NoItem
    /\ location = "/login"
    /\ issued = 0
    /\ call = [c \in Calls |-> IdleCall]
    /\ rf = FALSE
    /\ lo = FALSE
    /\ loginResult = "none"
    /\ token = NoTok

\* an accept transaction that has not been started
IdleAccept == [pc |-> "idle", tok |-> 0, id |-> 0, result |-> "none"]

InitServer ==
    /\ inv = <<>>
    /\ now = 0
    /\ nextTok = 1
    /\ acc = [a \in Acceptors |-> IdleAccept]
    /\ provisioned = [i \in 1..MaxInv |-> 0]
    /\ lastResult = "none"

\* the state query parameter: enc is how the text was built ("b64json" is
\* btoa(JSON.stringify(..)), "urijson" is encodeURIComponent(JSON.stringify(..)),
\* "opaque" is any other text), invitation_token the field of the JSON object
\* (0 when the object has no such field)
NoState == [enc |-> "none", invitation_token |-> 0]
StateOf(enc, tok) == [enc |-> enc, invitation_token |-> tok]

\* SSOCallbackPage before its effect has run
IdleCallback == [pc |-> "idle", code |-> Absent, state |-> NoState,
                 invitationToken |-> 0, posts |-> 0, answer |-> "none"]

\* a date field that is missing
NoDate == -1
\* a date field that is set, where no step reads the instant it holds
SomeDate == 0

\* AcceptInvitationPage when it is not on screen. mounted: the page is shown;
\* version: which of the two versions of the page; token: the link's token
\* (0 = none); loading, error, invitation: the useState values (invitation
\* null is present = FALSE); lookups: GET /auth/invitation/{token} requests
\* sent; net: that request ("none", "inflight", "answered", "never");
\* answer: what the server answered
NoInvitation == [present |-> FALSE, expires_at |-> NoDate]
NoPage == [mounted |-> FALSE, version |-> "none", token |-> 0,
           loading |-> TRUE, error |-> FALSE, invitation |-> NoInvitation,
           lookups |-> 0, net |-> "none", answer |-> "none"]

\* no request sent yet by the table. hdrAuth, hdrTenant: the Authorization
\* and tenant headers of the request; held, heldTenant: what the session
\* store held when it was sent
NoRequest == [sent |-> FALSE, hdrAuth |-> NoTok, hdrTenant |-> NoHeader,
              held |-> NoTok, heldTenant |-> NoItem]

\* a stored tenant item as text: shape "null" is a key that is not stored,
\* "json" the JSON object with a slug that login, renewal and the callback
\* write, "jsonNoSlug" a JSON object without slug, "text" a value that is not
\* JSON (a bare tenant id), "undefinedText" and "nullText" the texts
\* 'undefined' and 'null'
NoStoredTenant == [shape |-> "null", slug |-> Absent]

\* no decoder has run yet. fn: the function called; tok, item: the
\* credential and the stored tenant item handed to it; outcome: "value",
\* "null" (the decode error as a value), "header", "noHeader" or "throws";
\* binding: the tenant slug the caller of a decoder then stores (NoItem when
\* it stores none)
NoProbe == [fn |-> "none", tok |-> NoTok, item |-> NoStoredTenant,
            outcome |-> "none", binding |-> NoItem]

InitPages ==
    /\ users = <<>>
    /\ sentState = NoState
    /\ cb = IdleCallback
    /\ page = NoPage
    /\ req = NoRequest
    /\ probe = NoProbe

Init == InitClient /\ InitServer /\ InitPages

\* the tenant header both gateways build from localStorage 'current_tenant'
TenantHeader(item) == IF Truthy(item) THEN item ELSE NoHeader

\* AuthProvider's mount effect, which runs when the application is loaded
\* (window.location.href = .. reloads it): the stored access credential
\* becomes the context's token when a refresh credential is stored as well
MountToken(access, refresh) ==
    IF access # NoTok /\ refresh # 0 THEN access ELSE NoTok

\* ------------------------------------------------------------------------
\* AuthProvider.login (with LoginPage.handleSubmit)
\* ------------------------------------------------------------------------
\* ok: the provider accepted username/secret; t: the tenant claim of the
\* credential it issued
login(ok, t) ==
    IF ok
    THEN /\ issued < MaxTok
         /\ issued' = issued + 1
         /\ ls_access' = Jwt(issued + 1, t)
         /\ ls_refresh' = issued + 1
         /\ LET decodedUser == AuthDecodeTokenPayload(Jwt(issued + 1, t))
            IN  ls_tenant' = IF decodedUser.ok /\ Truthy(decodedUser.tenant)
                             THEN decodedUser.tenant
                             ELSE ls_tenant
         /\ token' = Jwt(issued + 1, t)
         /\ loginResult' = "success"
         /\ location' = "/"
         /\ UNCHANGED <<call, rf, lo, srv, ui>>
    ELSE /\ loginResult' = "error"
         /\ UNCHANGED <<store, location, issued, call, rf, lo, token, srv, ui>>

\* ------------------------------------------------------------------------
\* AuthProvider.logout
\* ------------------------------------------------------------------------
\* the finally block: the two removeItem calls, setToken(null)
LogoutClear ==
    /\ ls_access' = NoTok
    /\ ls_refresh' = 0
    /\ token' = NoTok
    /\ UNCHANGED ls_tenant

\* a logout that calls the provider's logout endpoint whatever is stored
LogoutStartAlwaysPosts ==
    /\ ~lo
    /\ lo' = TRUE
    /\ UNCHANGED store
    /\ UNCHANGED <<location, issued, call, rf, loginResult, token, srv, ui>>

\* logout() up to its await: without a stored refresh credential there is no
\* await and the finally block runs at once. One logout is followed at a
\* time; a logout started while another one waits ends with it.
LogoutStart ==
    /\ ~lo
    /\ IF ls_refresh # 0
       THEN lo' = TRUE /\ UNCHANGED <<store, token>>
       ELSE lo' = FALSE /\ LogoutClear
    /\ UNCHANGED <<location, issued, call, rf, loginResult, srv, ui>>

\* the provider's logout endpoint answered (or the fetch threw)
LogoutFinish ==
    /\ lo
    /\ lo' = FALSE
    /\ LogoutClear
    /\ UNCHANGED <<location, issued, call, rf, loginResult, srv, ui>>

\* ------------------------------------------------------------------------
\* AuthProvider.refreshAccessToken
\* ------------------------------------------------------------------------
refreshAccessTokenStart ==
    /\ ~rf
    /\ IF ls_refresh = 0
       THEN \* logout(); return  -- logout finds no refresh credential
            /\ LogoutClear
            /\ UNCHANGED rf
       ELSE /\ rf' = TRUE
            /\ UNCHANGED <<store, token>>
    /\ UNCHANGED <<location, issued, call, lo, loginResult, srv, ui>>

\* ok: the provider answered the refresh grant with a new pair whose
\* access credential carries tenant claim t
refreshAccessTokenResponse(ok, t) ==
    /\ rf
    /\ rf' = FALSE
    /\ IF ok
       THEN /\ issued < MaxTok
            /\ issued' = issued + 1
            /\ ls_access' = Jwt(issued + 1, t)
            /\ ls_refresh' = issued + 1
            /\ LET decodedUser == AuthDecodeTokenPayload(Jwt(issued + 1, t))
               IN  ls_tenant' = IF decodedUser.ok /\ Truthy(decodedUser.tenant)
                                THEN decodedUser.tenant
                                ELSE ls_tenant
            /\ token' = Jwt(issued + 1, t)
            /\ UNCHANGED lo
       ELSE \* catch: logout()
            /\ IF ls_refresh # 0
               THEN lo' = TRUE /\ UNCHANGED <<store, token>>
               ELSE LogoutClear /\ UNCHANGED lo
            /\ UNCHANGED issued
    /\ UNCHANGED <<location, call, loginResult, srv, ui>>

\* ------------------------------------------------------------------------
\* SSOCallbackPage.handleCallback
\* ------------------------------------------------------------------------
\* the handler after a 2xx answer: the localStorage writes and the navigation
CallbackStore(t, withRefresh, userTenant) ==
    /\ issued < MaxTok
    /\ issued' = issued + 1
    /\ ls_access' = Jwt(issued + 1, t)
    /\ ls_refresh' = IF withRefresh THEN issued + 1 ELSE ls_refresh
    /\ ls_tenant' = IF Truthy(userTenant) THEN userTenant ELSE ls_tenant
    /\ location' = "/admin/tenants"

\* the handler as one step; its steps are handleCallbackStart and
\* handleCallbackResponse below
\* errorParam, hasCode: the callback URL's error and code parameters;
\* ok: the backend callback answered 2xx; t: the tenant claim of the access
\* credential in the answer; withRefresh: the answer has a refresh_token;
\* userTenant: the answer's user.tenant field
handleCallback(errorParam, hasCode, ok, t, withRefresh, userTenant) ==
    IF errorParam \/ ~hasCode \/ ~ok
    THEN \* catch: setError, navigate('/login')
         /\ location' = "/login"
         /\ token' = MountToken(ls_access, ls_refresh)
         /\ UNCHANGED <<store, issued, call, rf, lo, loginResult, srv, ui>>
    ELSE /\ CallbackStore(t, withRefresh, userTenant)
         \* AuthProvider mounted with the page, before the store was written
         /\ token' = MountToken(ls_access, ls_refresh)
         /\ UNCHANGED <<call, rf, lo, loginResult, srv, ui>>

\* ------------------------------------------------------------------------
\* auth.jsx apiClient.request  (the gateway "with automatic token refresh")
\* ------------------------------------------------------------------------
\* up to the first await: read localStorage, build the headers, dispatch
GwStart(c) ==
    /\ call[c].pc \in {"idle", "done"}
    /\ call' = [call EXCEPT ![c] =
                  [pc |-> "wait1", gw |-> "auth",
                   hdrAuth |-> ls_access,
                   hdrTenant |-> TenantHeader(ls_tenant),
                   cred |-> ls_access.id, sent |-> 1, renewals |-> 0,
                   status |-> 0, result |-> "none"]]
    /\ UNCHANGED <<store, location, issued, rf, lo, loginResult, token, srv, ui>>

\* the first response: on 401 send the refresh grant, or give up when no
\* refresh credential is stored
GwFirstResponse(c, st) ==
    /\ call[c].pc = "wait1"
    /\ call[c].gw = "auth"
    /\ IF st = 401
       THEN IF ls_refresh # 0
            THEN /\ call' = [call EXCEPT ![c].pc = "waitRefresh",
                                         ![c].status = st,
                                         ![c].renewals = @ + 1]
                 /\ UNCHANGED <<location, token>>
            ELSE /\ call' = [call EXCEPT ![c].pc = "done",
                                         ![c].status = st,
                                         ![c].result = "Unauthorized"]
                 /\ location' = "/login"
                 /\ token' = MountToken(ls_access, ls_refresh)
       ELSE /\ call' = [call EXCEPT ![c].pc = "done",
                                    ![c].status = st,
                                    ![c].result = IF st = 200 THEN "ok"
                                                  ELSE "RequestFailed"]
            /\ UNCHANGED <<location, token>>
    /\ UNCHANGED <<store, issued, rf, lo, loginResult, srv, ui>>

\* a renewal that stores the new access credential and keeps the refresh
\* credential and the tenant binding it found
GwRefreshResponseTorn(c, ok, t) ==
    /\ call[c].pc = "waitRefresh"
    /\ IF ok
       THEN /\ issued < MaxTok
            /\ issued' = issued + 1
            /\ ls_access' = Jwt(issued + 1, t)
            /\ UNCHANGED <<ls_refresh, ls_tenant>>
            /\ call' = [call EXCEPT ![c].pc = "wait2",
                                    ![c].hdrAuth = Jwt(issued + 1, t),
                                    ![c].sent = @ + 1]
            /\ UNCHANGED <<location, token>>
       ELSE /\ call' = [call EXCEPT ![c].pc = "done",
                                    ![c].result = "Unauthorized"]
            /\ location' = "/login"
            /\ token' = MountToken(ls_access, ls_refresh)
            /\ UNCHANGED <<store, issued>>
    /\ UNCHANGED <<rf, lo, loginResult, srv, ui>>

\* the provider's answer to the refresh grant: store the new pair, update
\* the tenant from the new credential, retry; or redirect to /login
GwRefreshResponse(c, ok, t) ==
    /\ call[c].pc = "waitRefresh"
    /\ IF ok
       THEN /\ issued < MaxTok
            /\ issued' = issued + 1
            /\ ls_access' = Jwt(issued + 1, t)
            /\ ls_refresh' = issued + 1
            /\ LET decodedUser == decodeTokenPayload(Jwt(issued + 1, t))
                   hasSlug == decodedUser.ok /\ Truthy(decodedUser.tenant_slug)
               IN  /\ ls_tenant' = IF hasSlug THEN decodedUser.tenant_slug
                                   ELSE ls_tenant
                   /\ call' = [call EXCEPT
                        ![c].pc = "wait2",
                        ![c].hdrAuth = Jwt(issued + 1, t),
                        ![c].hdrTenant = IF hasSlug THEN decodedUser.tenant_slug
                                         ELSE @,
                        ![c].sent = @ + 1]
            /\ UNCHANGED <<location, token>>
       ELSE /\ call' = [call EXCEPT ![c].pc = "done",
                                    ![c].result = "Unauthorized"]
            /\ location' = "/login"
            /\ token' = MountToken(ls_access, ls_refresh)
            /\ UNCHANGED <<store, issued>>
    /\ UNCHANGED <<rf, lo, loginResult, srv, ui>>

\* a retry handler that renews again when the retried request gets 401
GwRetryResponseRenewAgain(c, st) ==
    /\ call[c].pc = "wait2"
    /\ IF st = 401 /\ ls_refresh # 0
       THEN call' = [call EXCEPT ![c].pc = "waitRefresh", ![c].status = st,
                                 ![c].renewals = @ + 1]
       ELSE call' = [call EXCEPT ![c].pc = "done", ![c].status = st,
                                 ![c].result = IF st = 200 THEN "ok"
                                               ELSE "RequestFailed"]
    /\ UNCHANGED <<store, location, issued, rf, lo, loginResult, token, srv, ui>>

\* the response to the retried request
GwRetryResponse(c, st) ==
    /\ call[c].pc = "wait2"
    /\ call' = [call EXCEPT ![c].pc = "done",
                            ![c].status = st,
                            ![c].result = IF st = 200 THEN "ok"
                                          ELSE "RequestFailed"]
    /\ UNCHANGED <<store, location, issued, rf, lo, loginResult, token, srv, ui>>

\* ------------------------------------------------------------------------
\* utils/apiClient.js ApiClient.request
\* ------------------------------------------------------------------------
ApiStart(c) ==
    /\ call[c].pc \in {"idle", "done"}
    /\ IF ls_access = NoTok
       THEN call' = [call EXCEPT ![c] =
                       [IdleCall EXCEPT !.pc = "done", !.gw = "utils",
                                        !.result = "NoToken"]]
       ELSE call' = [call EXCEPT ![c] =
                       [pc |-> "wait1", gw |-> "utils",
                        hdrAuth |-> ls_access,
                        hdrTenant |-> TenantHeader(ls_tenant),
                        cred |-> ls_access.id, sent |-> 1, renewals |-> 0,
                        status |-> 0, result |-> "none"]]
    /\ UNCHANGED <<store, location, issued, rf, lo, loginResult, token, srv, ui>>

ApiResponse(c, st) ==
    /\ call[c].pc = "wait1"
    /\ call[c].gw = "utils"
    /\ IF st = 401
       THEN /\ ls_access' = NoTok
            /\ ls_refresh' = 0
            /\ UNCHANGED ls_tenant
            /\ location' = "/login"
            /\ token' = MountToken(NoTok, 0)
            /\ call' = [call EXCEPT ![c].pc = "done", ![c].status = st,
                                    ![c].result = "AuthExpired"]
       ELSE /\ call' = [call EXCEPT ![c].pc = "done", ![c].status = st,
                                    ![c].result = IF st = 200 THEN "ok"
                                                  ELSE "RequestFailed"]
            /\ UNCHANGED <<store, location, token>>
    /\ UNCHANGED <<issued, rf, lo, loginResult, srv, ui>>

\* ------------------------------------------------------------------------
\* Invitation state machine (server side)
\* ------------------------------------------------------------------------
\* lifetime of an invitation in clock ticks (expiresAt = invitedAt + Ttl)
Ttl == 1

\* the status a read reports: a stored pending past its expiry reads expired
EffectiveStatus(r) ==
    IF r.status = "pending" /\ now > r.expiresAt THEN "expired" ELSE r.status

\* the ids of the records that carry token tok (tokens are unique)
ByToken(tok) == {i \in 1..Len(inv) : inv[i].token = tok}

\* a create that does not look for an active invitation of the same pair
CreateNoDuplicateCheck(who) ==
    /\ Len(inv) < MaxInv
    /\ nextTok <= MaxInvTok
    /\ inv' = Append(inv, [who |-> who, token |-> nextTok,
                            status |-> "pending", expiresAt |-> now + Ttl,
                            acceptedAt |-> NoDate])
    /\ nextTok' = nextTok + 1
    /\ lastResult' = "Created"
    /\ UNCHANGED <<now, acc, provisioned, cvars, ui>>

\* create(email, tenantId, ...); a record is [who, token, status, expiresAt,
\* acceptedAt] (invitedBy, invitedAt and roles do not influence any transition)
Create(who) ==
    /\ Len(inv) < MaxInv
    /\ nextTok <= MaxInvTok
    /\ IF \E i \in 1..Len(inv) :
             inv[i].who = who /\ EffectiveStatus(inv[i]) = "pending"
       THEN /\ lastResult' = "DuplicateActiveInvitation"
            /\ UNCHANGED <<inv, nextTok>>
       ELSE /\ inv' = Append(inv, [who |-> who, token |-> nextTok,
                                   status |-> "pending",
                                   expiresAt |-> now + Ttl,
                                   acceptedAt |-> NoDate])
            /\ nextTok' = nextTok + 1
            /\ lastResult' = "Created"
    /\ UNCHANGED <<now, acc, provisioned, cvars, ui>>

\* a resend that replaces the token and keeps the expiry it found
ResendKeepsExpiry(i) ==
    /\ i \in 1..Len(inv)
    /\ nextTok <= MaxInvTok
    /\ IF EffectiveStatus(inv[i]) # "pending"
       THEN /\ lastResult' = "NotPending"
            /\ UNCHANGED <<inv, nextTok>>
       ELSE /\ inv' = [inv EXCEPT ![i].token = nextTok]
            /\ nextTok' = nextTok + 1
            /\ lastResult' = "Resent"
    /\ UNCHANGED <<now, acc, provisioned, cvars, ui>>

\* a resend that looks at the stored status only, not at the expiry
ResendStoredStatus(i) ==
    /\ i \in 1..Len(inv)
    /\ nextTok <= MaxInvTok
    /\ IF inv[i].status # "pending"
       THEN /\ lastResult' = "NotPending"
            /\ UNCHANGED <<inv, nextTok>>
       ELSE /\ inv' = [inv EXCEPT ![i].token = nextTok,
                                  ![i].expiresAt = now + Ttl]
            /\ nextTok' = nextTok + 1
            /\ lastResult' = "Resent"
    /\ UNCHANGED <<now, acc, provisioned, cvars, ui>>

\* resend(id): a fresh token and expiry for an effectively pending record
Resend(i) ==
    /\ i \in 1..Len(inv)
    /\ nextTok <= MaxInvTok
    /\ IF EffectiveStatus(inv[i]) # "pending"
       THEN /\ lastResult' = "NotPending"
            /\ UNCHANGED <<inv, nextTok>>
       ELSE /\ inv' = [inv EXCEPT ![i].token = nextTok,
                                  ![i].expiresAt = now + Ttl]
            /\ nextTok' = nextTok + 1
            /\ lastResult' = "Resent"
    /\ UNCHANGED <<now, acc, provisioned, cvars, ui>>

\* cancel(id)
Cancel(i) ==
    /\ i \in 1..Len(inv)
    /\ IF EffectiveStatus(inv[i]) # "pending"
       THEN /\ lastResult' = "NotPending"
            /\ UNCHANGED inv
       ELSE /\ inv' = [inv EXCEPT ![i].status = "cancelled"]
            /\ lastResult' = "Cancelled"
    /\ UNCHANGED <<now, nextTok, acc, provisioned, cvars, ui>>

\* an accept that stores the status expired when it finds the record expired
AcceptBeginMarksExpired(a, tok) ==
    /\ acc[a].pc \in {"idle", "done"}
    /\ LET ids == ByToken(tok)
       IN  IF ids = {}
           THEN /\ acc' = [acc EXCEPT ![a] = [pc |-> "done", tok |-> tok,
                                              id |-> 0, result |-> "NotFound"]]
                /\ UNCHANGED inv
           ELSE LET i == CHOOSE j \in ids : TRUE
                IN  IF inv[i].status # "pending"
                    THEN /\ acc' = [acc EXCEPT ![a] =
                                      [pc |-> "done", tok |-> tok, id |-> 0,
                                       result |-> "AlreadyConsumed"]]
                         /\ UNCHANGED inv
                    ELSE IF now > inv[i].expiresAt
                    THEN /\ acc' = [acc EXCEPT ![a] =
                                      [pc |-> "done", tok |-> tok, id |-> 0,
                                       result |-> "Expired"]]
                         /\ inv' = [inv EXCEPT ![i].status = "expired"]
                    ELSE /\ acc' = [acc EXCEPT ![a] =
                                      [pc |-> "checked", tok |-> tok, id |-> i,
                                       result |-> "none"]]
                         /\ UNCHANGED inv
    /\ UNCHANGED <<now, nextTok, provisioned, lastResult, cvars, ui>>

\* an accept whose check does not look at the expiry
AcceptBeginNoExpiry(a, tok) ==
    /\ acc[a].pc \in {"idle", "done"}
    /\ LET ids == ByToken(tok)
       IN  IF ids = {}
           THEN acc' = [acc EXCEPT ![a] = [pc |-> "done", tok |-> tok, id |-> 0,
                                           result |-> "NotFound"]]
           ELSE LET i == CHOOSE j \in ids : TRUE
                IN  IF inv[i].status # "pending"
                    THEN acc' = [acc EXCEPT ![a] =
                                   [pc |-> "done", tok |-> tok, id |-> 0,
                                    result |-> "AlreadyConsumed"]]
                    ELSE acc' = [acc EXCEPT ![a] =
                                   [pc |-> "checked", tok |-> tok, id |-> i,
                                    result |-> "none"]]
    /\ UNCHANGED <<inv, now, nextTok, provisioned, lastResult, cvars, ui>>

\* accept(token), the read and the check of the transaction: look the record
\* up by token, verify that it is pending and not expired
AcceptBegin(a, tok) ==
    /\ acc[a].pc \in {"idle", "done"}
    /\ LET ids == ByToken(tok)
       IN  IF ids = {}
           THEN acc' = [acc EXCEPT ![a] = [pc |-> "done", tok |-> tok, id |-> 0,
                                           result |-> "NotFound"]]
           ELSE LET i == CHOOSE j \in ids : TRUE
                IN  IF inv[i].status # "pending"
                    THEN acc' = [acc EXCEPT ![a] =
                                   [pc |-> "done", tok |-> tok, id |-> 0,
                                    result |-> "AlreadyConsumed"]]
                    ELSE IF now > inv[i].expiresAt
                    THEN acc' = [acc EXCEPT ![a] =
                                   [pc |-> "done", tok |-> tok, id |-> 0,
                                    result |-> "Expired"]]
                    ELSE acc' = [acc EXCEPT ![a] =
                                   [pc |-> "checked", tok |-> tok, id |-> i,
                                    result |-> "none"]]
    /\ UNCHANGED <<inv, now, nextTok, provisioned, lastResult, cvars, ui>>

\* accept's write without the conflict check: writes whatever the record is now
AcceptCommitBlindWrite(a) ==
    /\ acc[a].pc = "checked"
    /\ inv' = [inv EXCEPT ![acc[a].id].status = "accepted",
                            ![acc[a].id].acceptedAt = SomeDate]
    /\ provisioned' = [provisioned EXCEPT ![acc[a].id] = @ + 1]
    /\ acc' = [acc EXCEPT ![a].pc = "done", ![a].result = "Success"]
    /\ UNCHANGED <<now, nextTok, lastResult, cvars, ui>>

\* accept's write with a conflict check on the status alone: it does not
\* notice that the record was given a new token
AcceptCommitStatusOnly(a) ==
    /\ acc[a].pc = "checked"
    /\ LET i == acc[a].id
       IN  IF inv[i].status = "pending"
           THEN /\ inv' = [inv EXCEPT ![i].status = "accepted",
                                       ![i].acceptedAt = SomeDate]
                /\ provisioned' = [provisioned EXCEPT ![i] = @ + 1]
                /\ acc' = [acc EXCEPT ![a].pc = "done", ![a].result = "Success"]
           ELSE /\ acc' = [acc EXCEPT ![a].pc = "done",
                                      ![a].result = "AlreadyConsumed"]
                /\ UNCHANGED <<inv, provisioned>>
    /\ UNCHANGED <<now, nextTok, lastResult, cvars, ui>>

\* accept(token), the write: a check-and-set that conflicts when the record
\* is no longer the pending one that was read
AcceptCommit(a) ==
    /\ acc[a].pc = "checked"
    /\ LET i == acc[a].id
       IN  IF inv[i].token = acc[a].tok /\ inv[i].status = "pending"
           THEN /\ inv' = [inv EXCEPT ![i].status = "accepted",
                                       ![i].acceptedAt = SomeDate]
                /\ provisioned' = [provisioned EXCEPT ![i] = @ + 1]
                /\ acc' = [acc EXCEPT ![a].pc = "done", ![a].result = "Success"]
           ELSE /\ acc' = [acc EXCEPT ![a].pc = "done",
                                      ![a].result = IF inv[i].token # acc[a].tok
                                                    THEN "NotFound"
                                                    ELSE "AlreadyConsumed"]
                /\ UNCHANGED <<inv, provisioned>>
    /\ UNCHANGED <<now, nextTok, lastResult, cvars, ui>>

\* the server's clock advances
Tick ==
    /\ now < MaxTime
    /\ now' = now + 1
    /\ UNCHANGED <<inv, nextTok, acc, provisioned, lastResult, cvars, ui>>

NextInv ==
    \/ \E who \in Invitees : Create(who)
    \/ \E i \in 1..MaxInv : Resend(i)
    \/ \E i \in 1..MaxInv : Cancel(i)
    \/ \E a \in Acceptors, tok \in 1..MaxInvTok : AcceptBegin(a, tok)
    \/ \E a \in Acceptors : AcceptCommit(a)
    \/ Tick

SpecInv == Init /\ [][NextInv]_vars

\* a users row written without the invitation columns (a user that existed
\* when the migration ran, or one created by hand): the columns take their
\* defaults, invitation_status 'accepted' and NULL for the others
InsertUser(who) ==
    /\ Len(inv) < MaxInv
    /\ inv' = Append(inv, [who |-> who, token |-> 0, status |-> "accepted",
                            expiresAt |-> NoDate, acceptedAt |-> NoDate])
    /\ UNCHANGED <<now, nextTok, acc, provisioned, lastResult, cvars, ui>>

\* the invitation machine on the users table as the migration defines it
NextSchema ==
    \/ NextInv
    \/ \E who \in Invitees : InsertUser(who)

SpecSchema == Init /\ [][NextSchema]_vars

\* ------------------------------------------------------------------------
\* Specifications of the client
\* ------------------------------------------------------------------------
Claims == TenantClaims \cup {Absent}

\* the callback inputs that differ in what the handler does: an OAuth error,
\* a missing code, a backend failure, and the successful answers
CallbackInputs ==
    {<<TRUE, TRUE, TRUE, Absent, FALSE, Absent>>,
     <<FALSE, FALSE, TRUE, Absent, FALSE, Absent>>,
     <<FALSE, TRUE, FALSE, Absent, FALSE, Absent>>}
    \cup {<<FALSE, TRUE, TRUE, t, r, u>> : t \in Claims, r \in BOOLEAN, u \in Claims}

\* the provider's answers to a grant: a failure, or a pair with tenant claim t
GrantAnswers == {<<FALSE, Absent>>} \cup {<<TRUE, t>> : t \in Claims}

SessionOps ==
    \/ \E g \in GrantAnswers : login(g[1], g[2])
    \/ LogoutStart
    \/ LogoutFinish
    \/ refreshAccessTokenStart
    \/ \E g \in GrantAnswers : refreshAccessTokenResponse(g[1], g[2])
    \/ \E i \in CallbackInputs : handleCallback(i[1], i[2], i[3], i[4], i[5], i[6])

GatewayOps(c) ==
    \/ GwStart(c)
    \/ \E st \in Statuses : GwFirstResponse(c, st)
    \/ \E g \in GrantAnswers : GwRefreshResponse(c, g[1], g[2])
    \/ \E st \in Statuses : GwRetryResponse(c, st)
    \/ ApiStart(c)
    \/ \E st \in Statuses : ApiResponse(c, st)

\* the session store under every operation, with one gateway call at a time
Next == SessionOps \/ GatewayOps("c1")

Spec == Init /\ [][Next]_vars

\* concurrent gateway calls on a session established by login
NextRace ==
    \/ \E g \in GrantAnswers : login(g[1], g[2])
    \/ \E c \in Calls : GatewayOps(c)

SpecRace == Init /\ [][NextRace]_vars

\* every renewal path at once: AuthProvider.refreshAccessToken and two calls
\* of the refreshing gateway, on a session established by login, with logout
NextRenew ==
    \/ \E g \in GrantAnswers : login(g[1], g[2])
    \/ LogoutStart
    \/ LogoutFinish
    \/ refreshAccessTokenStart
    \/ \E g \in GrantAnswers : refreshAccessTokenResponse(g[1], g[2])
    \/ \E c \in Calls :
          \/ GwStart(c)
          \/ \E st \in Statuses : GwFirstResponse(c, st)
          \/ \E g \in GrantAnswers : GwRefreshResponse(c, g[1], g[2])
          \/ \E st \in Statuses : GwRetryResponse(c, st)

SpecRenew == Init /\ [][NextRenew]_vars

\* ------------------------------------------------------------------------
\* UserManagementTable and InvitationStatusBadge
\* ------------------------------------------------------------------------
\* GET /api/v1/users: one row per invitation, the status as a read reports it
ListUsers ==
    [i \in 1..Len(inv) |->
        [invitation_status |-> EffectiveStatus(inv[i]),
         invitation_expires_at |-> inv[i].expiresAt]]

\* localStorage 'token', the key the table reads its credential from: no
\* code of the client writes it (login, renewal and the SSO callback write
\* 'access_token'), so getItem returns null
ls_token == NoTok

\* fetchUsers: fetch('/api/v1/users') with Authorization: Bearer
\* ${localStorage.getItem('token')} and Content-Type only; setUsers(data.users)
\* on a 2xx answer, a toast otherwise
fetchUsers(ok) ==
    /\ req' = [sent |-> TRUE, hdrAuth |-> ls_token, hdrTenant |-> NoHeader,
               held |-> ls_access, heldTenant |-> ls_tenant]
    /\ users' = IF ok THEN ListUsers ELSE users
    /\ UNCHANGED <<sentState, cb, page, probe, cvars, srv>>

\* InvitationStatusBadge.getStatusConfig().label (the statuses of the model
\* are lower case already)
getStatusConfig(status) ==
    CASE status = "pending" -> "Invitation Sent"
      [] status = "accepted" -> "Active"
      [] status = "expired" -> "Invitation Expired"
      [] status = "cancelled" -> "Cancelled"
      [] OTHER -> IF Truthy(status) THEN status ELSE "Unknown"

\* InvitationStatusBadge.getTooltip(): only the tooltip looks at the clock;
\* for the other statuses it is the fixed text of getStatusConfig
getTooltip(status, expiresAt) ==
    IF status = "pending"
    THEN IF now > expiresAt THEN "Invitation has expired" ELSE "Expires in"
    ELSE CASE status = "accepted" -> "Invitation accepted, user is active"
           [] status = "expired" -> "Invitation has expired"
           [] status = "cancelled" -> "Invitation was cancelled"
           [] OTHER -> "Unknown status"

\* the actions menu: Resend Invitation and Cancel Invitation are shown when
\* selectedUser?.invitation_status === 'pending'
PendingActionsShown(selectedUser) == selectedUser.invitation_status = "pending"

\* the table and the server's invitations
NextView ==
    \/ \E who \in Invitees : Create(who)
    \/ \E i \in 1..MaxInv : Resend(i)
    \/ \E i \in 1..MaxInv : Cancel(i)
    \/ Tick
    \/ \E ok \in BOOLEAN : fetchUsers(ok)

SpecView == Init /\ [][NextView]_vars

\* the table in a browser that logs in and out
NextTable ==
    \/ \E g \in GrantAnswers : login(g[1], g[2])
    \/ LogoutStart
    \/ LogoutFinish
    \/ \E who \in Invitees : Create(who)
    \/ \E ok \in BOOLEAN : fetchUsers(ok)

SpecTable == Init /\ [][NextTable]_vars

\* ------------------------------------------------------------------------
\* AcceptInvitationPage
\* ------------------------------------------------------------------------
\* isExpired(): new Date(invitation.expires_at) < new Date()
isExpiredReversed(invitation) ==
    IF invitation.expires_at = NoDate THEN FALSE
    ELSE invitation.expires_at > now

isExpired(invitation) ==
    IF invitation.expires_at = NoDate THEN FALSE
    ELSE invitation.expires_at < now

\* the two versions of the page
Versions == {"first", "fixed"}

\* the first version's simulated invitation expires this long after the page
\* was loaded (7 days, as one period of the model's clock)
SimulatedLifetime == 1

\* the effect of a page that fetches the invitation even without a token
AcceptPageMountAlwaysFetch(version, tok) ==
    /\ page' = [NoPage EXCEPT !.mounted = TRUE, !.version = version,
                              !.token = tok, !.lookups = 1,
                              !.net = "inflight"]
    /\ cb' = IdleCallback
    /\ location' = "/accept-invitation"
    /\ token' = MountToken(ls_access, ls_refresh)
    /\ UNCHANGED <<store, issued, call, rf, lo, loginResult, users, sentState,
                   req, probe, srv>>

\* the browser loads /accept-invitation?token=.. (AuthProvider mounts) and
\* the effect runs up to its await. Without a token: setError, setLoading(false), no request. The
\* first version then shows simulated invitation data without asking the
\* server; the fixed one sends GET /api/v1/auth/invitation/{token}.
AcceptPageMount(version, tok) ==
    /\ page' =
         IF tok = 0
         THEN [NoPage EXCEPT !.mounted = TRUE, !.version = version,
                             !.loading = FALSE, !.error = TRUE]
         ELSE IF version = "first"
         THEN [NoPage EXCEPT !.mounted = TRUE, !.version = version,
                             !.token = tok, !.loading = FALSE,
                             !.invitation =
                                 [present |-> TRUE,
                                  expires_at |-> now + SimulatedLifetime]]
         ELSE [NoPage EXCEPT !.mounted = TRUE, !.version = version,
                             !.token = tok, !.lookups = 1,
                             !.net = "inflight"]
    /\ cb' = IdleCallback
    /\ location' = "/accept-invitation"
    /\ token' = MountToken(ls_access, ls_refresh)
    /\ UNCHANGED <<store, issued, call, rf, lo, loginResult, users, sentState,
                   req, probe, srv>>

\* what the server answers to the lookup, and the expires_at of the metadata
\* it sends with a 2xx answer
LookupOutcomes == {"Ok", "NotFound", "AlreadyConsumed", "Expired"}
LookupAnswers ==
    {<<o, NoDate>> : o \in LookupOutcomes \ {"Ok"}}
    \cup {<<"Ok", e>> : e \in {NoDate} \cup 0..MaxTime}

\* the lookup's answer: setInvitation(data) on a 2xx answer; every other
\* status throws into the catch block, which calls setError
fetchInvitationDetailsResponse(outcome, expiresAt) ==
    /\ page.mounted
    /\ page.net = "inflight"
    /\ page' = IF outcome = "Ok"
               THEN [page EXCEPT !.loading = FALSE, !.net = "answered",
                                 !.answer = outcome,
                                 !.invitation = [present |-> TRUE,
                                                 expires_at |-> expiresAt]]
               ELSE [page EXCEPT !.loading = FALSE, !.net = "answered",
                                 !.answer = outcome, !.error = TRUE]
    /\ UNCHANGED <<cvars, users, sentState, cb, req, probe, srv>>

\* the render branches, in their order: the spinner, "Invalid Invitation",
\* "Invitation Expired", and the page with the sign-in buttons
PageView ==
    IF ~page.mounted THEN "unmounted"
    ELSE IF page.loading THEN "loading"
    ELSE IF page.error \/ ~page.invitation.present THEN "invalid"
    ELSE IF isExpired(page.invitation) THEN "expired"
    ELSE "ready"

\* handleSsoLogin, the onClick of the sign-in buttons of the last render
\* branch: build the state parameter from the link's token and leave for the
\* identity provider. The first version of the page sends
\* encodeURIComponent(JSON.stringify({invitation_token})), the fixed one
\* btoa(JSON.stringify({invitation_token, return_url})).
handleSsoLogin ==
    /\ PageView = "ready"
    /\ sentState' = StateOf(IF page.version = "first" THEN "urijson"
                            ELSE "b64json", page.token)
    /\ location' = "provider"
    /\ page' = NoPage
    /\ UNCHANGED <<store, issued, call, rf, lo, loginResult, token, users, cb, req,
                   probe, srv>>

\* the invitation page, its lookup and the clock
NextPage ==
    \/ \E v \in Versions, tok \in 0..MaxInvTok : AcceptPageMount(v, tok)
    \/ \E a \in LookupAnswers : fetchInvitationDetailsResponse(a[1], a[2])
    \/ handleSsoLogin
    \/ Tick

SpecPage == Init /\ [][NextPage]_vars

\* ------------------------------------------------------------------------
\* The decoders and the tenant header, as functions of the text they read
\* ------------------------------------------------------------------------
\* the credential strings handed to a decoder
ProbeTokens ==
    {[id |-> 1, form |-> f, tenant |-> t] : f \in Forms, t \in Claims}

\* the texts found under the tenant keys
StoredTenants ==
    {NoStoredTenant}
    \cup {[shape |-> sh, slug |-> Absent] :
            sh \in {"jsonNoSlug", "text", "undefinedText", "nullText"}}
    \cup {[shape |-> "json", slug |-> t] : t \in TenantClaims}

\* both decodeTokenPayload functions: the whole body is inside try/catch and
\* the catch returns null
DecodeOutcome(tok) == IF Decodable(tok) THEN "value" ELSE "null"

\* JSON.parse of a stored item gives an object; 'null' parses to null, every
\* other text is a SyntaxError
ParsesAsJson(item) == item.shape \in {"json", "jsonNoSlug"}

\* both gateways: the texts 'undefined' and 'null' are skipped, JSON.parse of
\* the others is inside try/catch, then if (tenant?.slug) set X-Tenant-ID
GatewayTenantOutcome(item) ==
    IF item.shape \in {"null", "undefinedText", "nullText"} THEN "noHeader"
    ELSE IF ParsesAsJson(item) /\ Truthy(item.slug) THEN "header"
    ELSE "noHeader"

\* the axios request interceptor: if (tenantId) JSON.parse(tenantId) with no
\* try/catch around it (JSON.parse throws on a text that is not JSON, and
\* .slug of the null that 'null' parses to throws as well); only the fallback
\* that reads the credential's payload.tenant_id is inside try/catch, and
\* finds no such field (the credentials carry their tenant as 'tenant')
InterceptorTenantOutcome(item) ==
    IF item.shape # "null"
    THEN IF ParsesAsJson(item) THEN "header" ELSE "throws"
    ELSE "noHeader"

\* login and refreshAccessToken: decodedUser = decodeTokenPayload(..) of the
\* AuthProvider, then if (decodedUser.tenant) store slug decodedUser.tenant
LoginBinding(tok) ==
    LET decodedUser == AuthDecodeTokenPayload(tok)
    IN  IF decodedUser.ok /\ Truthy(decodedUser.tenant)
        THEN decodedUser.tenant ELSE NoItem

\* the gateway's renewal: the module-level decodeTokenPayload(..), then
\* if (decodedUser?.tenant_slug) store slug decodedUser.tenant_slug
GatewayBinding(tok) ==
    LET decodedUser == decodeTokenPayload(tok)
    IN  IF decodedUser.ok /\ Truthy(decodedUser.tenant_slug)
        THEN decodedUser.tenant_slug ELSE NoItem

\* one call of a decoder or of a tenant-header builder
Probe(fn, tok, item) ==
    /\ probe' = [fn |-> fn, tok |-> tok, item |-> item,
                 binding |-> CASE fn = "AuthProvider.decodeTokenPayload"
                                    -> LoginBinding(tok)
                               [] fn = "decodeTokenPayload"
                                    -> GatewayBinding(tok)
                               [] OTHER -> NoItem,
                 outcome |-> CASE fn \in {"decodeTokenPayload",
                                          "AuthProvider.decodeTokenPayload"}
                                      -> DecodeOutcome(tok)
                               [] fn \in {"apiClient.request",
                                          "ApiClient.request"}
                                      -> GatewayTenantOutcome(item)
                               [] fn = "interceptor" ->
                                      InterceptorTenantOutcome(item)]
    /\ UNCHANGED <<cvars, srv, users, sentState, cb, page, req>>

NextCodec ==
    \/ \E tok \in ProbeTokens,
          fn \in {"decodeTokenPayload", "AuthProvider.decodeTokenPayload"} :
          Probe(fn, tok, NoStoredTenant)
    \/ \E item \in StoredTenants,
          fn \in {"apiClient.request", "ApiClient.request"} :
          Probe(fn, NoTok, item)
    \/ \E item \in StoredTenants, tok \in ProbeTokens \cup {NoTok} :
          Probe("interceptor", tok, item)

SpecCodec == Init /\ [][NextCodec]_vars

\* ------------------------------------------------------------------------
\* SSOCallbackPage.handleCallback, step by step
\* ------------------------------------------------------------------------
\* the authorization codes a callback URL can carry
Codes == {"code-1", "code-2"}

\* the state parameters a callback URL can carry
ReturnedStates ==
    {NoState, StateOf("opaque", 0)}
    \cup {StateOf(e, k) : e \in {"b64json", "urijson"}, k \in 0..MaxInvTok}

\* JSON.parse(atob(state)).invitation_token inside try/catch: 0 (null or
\* undefined) unless the text is base64 of a JSON object with that field
DecodeState(state) ==
    IF state.enc = "b64json" THEN state.invitation_token ELSE 0

\* the browser loads /auth/callback?.. (AuthProvider mounts), the page mounts
\* and the handler runs up to its await: read the URL, check
\* error and code, decode the state, POST /api/v1/auth/sso/callback
handleCallbackStart(errorParam, code, state) ==
    /\ cb.pc \in {"idle", "done", "failed"}
    /\ IF errorParam \/ code = Absent
       THEN /\ cb' = [pc |-> "failed", code |-> code, state |-> state,
                      invitationToken |-> 0, posts |-> 0, answer |-> "none"]
            /\ location' = "/login"
       ELSE /\ cb' = [pc |-> "exchanging", code |-> code, state |-> state,
                      invitationToken |-> DecodeState(state), posts |-> 1,
                      answer |-> "none"]
            /\ location' = "/auth/callback"
    /\ page' = NoPage
    /\ token' = MountToken(ls_access, ls_refresh)
    /\ UNCHANGED <<store, issued, call, rf, lo, loginResult, users, sentState,
                   req, probe, srv>>

\* a handler that posts the code once more when the backend answers an error
handleCallbackResponseRetry(ok, t, withRefresh, userTenant) ==
    /\ cb.pc = "exchanging"
    /\ cb.answer # "never"
    /\ IF ok
       THEN /\ CallbackStore(t, withRefresh, userTenant)
            /\ cb' = [cb EXCEPT !.pc = "done", !.answer = "ok"]
       ELSE /\ IF cb.posts < 2
               THEN cb' = [cb EXCEPT !.posts = @ + 1, !.answer = "error"]
               ELSE cb' = [cb EXCEPT !.pc = "failed", !.answer = "error"]
            /\ UNCHANGED <<store, issued, location>>
    /\ UNCHANGED <<call, rf, lo, loginResult, token, users, sentState, page, req,
                   probe, srv>>

\* the backend's answer (when there is one): store the session and go on,
\* or setError and go back to the login page
handleCallbackResponse(ok, t, withRefresh, userTenant) ==
    /\ cb.pc = "exchanging"
    /\ cb.answer # "never"
    /\ IF ok
       THEN /\ CallbackStore(t, withRefresh, userTenant)
            /\ cb' = [cb EXCEPT !.pc = "done", !.answer = "ok"]
       ELSE /\ cb' = [cb EXCEPT !.pc = "failed", !.answer = "error"]
            /\ location' = "/login"
            /\ UNCHANGED <<store, issued>>
    /\ UNCHANGED <<call, rf, lo, loginResult, token, users, sentState, page, req,
                   probe, srv>>

\* the callback URLs that differ in what the handler does: an OAuth error, a
\* missing code, and a code with each of the state parameters
CallbackUrls ==
    {<<TRUE, c, NoState>> : c \in Codes}
    \cup {<<FALSE, Absent, NoState>>}
    \cup {<<FALSE, c, st>> : c \in Codes, st \in ReturnedStates}

\* the backend's answers to the callback POST
CallbackAnswers ==
    {<<FALSE, Absent, FALSE, Absent>>}
    \cup {<<TRUE, t, r, u>> : t \in Claims, r \in BOOLEAN, u \in Claims}

\* the lookup answers that differ in what the handshake does next
HandshakeLookupAnswers == {<<"Ok", MaxTime>>, <<"NotFound", NoDate>>}

\* the invitation handshake: invitations exist on the server, the page sends
\* the browser to the provider, the browser comes back to the callback page
NextHandshake ==
    \/ \E who \in Invitees : Create(who)
    \/ \E v \in Versions, tok \in 0..MaxInvTok : AcceptPageMount(v, tok)
    \/ \E a \in HandshakeLookupAnswers :
          fetchInvitationDetailsResponse(a[1], a[2])
    \/ handleSsoLogin
    \/ \E u \in CallbackUrls : handleCallbackStart(u[1], u[2], u[3])
    \/ \E r \in CallbackAnswers :
          handleCallbackResponse(r[1], r[2], r[3], r[4])

SpecHandshake == Init /\ [][NextHandshake]_vars

\* ------------------------------------------------------------------------
\* The handshake over a network that may lose a request
\* ------------------------------------------------------------------------
\* the lookup is never answered: fetch() is called without a signal or a
\* timeout, so its promise stays pending
LookupNeverAnswered ==
    /\ page.mounted
    /\ page.net = "inflight"
    /\ page' = [page EXCEPT !.net = "never"]
    /\ UNCHANGED <<cvars, users, sentState, cb, req, probe, srv>>

\* the callback POST is never answered: the same for its fetch()
CallbackNeverAnswered ==
    /\ cb.pc = "exchanging"
    /\ cb.answer = "none"
    /\ cb' = [cb EXCEPT !.answer = "never"]
    /\ UNCHANGED <<cvars, users, sentState, page, req, probe, srv>>

\* the user is waiting for a request of the page that is on screen
Waiting == PageView = "loading" \/ cb.pc = "exchanging"

\* the handshake with a user who follows it: the browser leaves a page only
\* when that page is not waiting for an answer
NextLive ==
    \/ /\ ~Waiting
       /\ \E v \in Versions, tok \in 0..MaxInvTok : AcceptPageMount(v, tok)
    \/ \E a \in HandshakeLookupAnswers :
          fetchInvitationDetailsResponse(a[1], a[2])
    \/ LookupNeverAnswered
    \/ handleSsoLogin
    \/ /\ ~Waiting
       /\ \E u \in CallbackUrls : handleCallbackStart(u[1], u[2], u[3])
    \/ \E r \in CallbackAnswers :
          handleCallbackResponse(r[1], r[2], r[3], r[4])
    \/ CallbackNeverAnswered

\* an answer that is on its way arrives, and the handler's continuation runs
SpecLive ==
    /\ Init
    /\ [][NextLive]_vars
    /\ WF_vars(\E a \in HandshakeLookupAnswers :
                  fetchInvitationDetailsResponse(a[1], a[2]))
    /\ WF_vars(\E r \in CallbackAnswers :
                  handleCallbackResponse(r[1], r[2], r[3], r[4]))

\* ------------------------------------------------------------------------
\* Properties of the gateways and the session store
\* ------------------------------------------------------------------------
SessionCleared == ls_access = NoTok /\ ls_refresh = 0 /\ ls_tenant = NoItem

\* the tenant claim a stored credential carries, as the binding it should give
ClaimOf(tok) == IF Decodable(tok) /\ Truthy(tok.tenant) THEN tok.tenant ELSE NoItem

\* C1: renewal race -- for one expired access credential there is never more
\* than one refreshGrant request in flight: of two calls that got 401 for the
\* same credential only one sends the refresh grant, the other waits for it.
C1_SingleRenewal ==
    \A a, b \in Calls :
        (a # b /\ call[a].pc = "waitRefresh" /\ call[a].cred = call[b].cred)
            => call[b].pc # "waitRefresh"

\* C4: retry bound -- a gateway call dispatches the resource request at most
\* twice and sends the refresh grant at most once, whatever the responses.
C4_RetryBound ==
    \A c \in Calls : call[c].sent <= 2 /\ call[c].renewals <= 1

\* a call whose first attempt and whose retry both got 401, and that ended
C4_Witness ==
    \E c \in Calls : /\ call[c].pc = "done" /\ call[c].sent = 2
                     /\ call[c].renewals = 1 /\ call[c].status = 401
                     /\ call[c].result = "RequestFailed"

\* C5: renewal exhaustion -- the step in which the retried call gets 401, or
\* in which the refresh grant fails, leaves no access credential, no refresh
\* credential and no tenant binding in the store.
C5_RenewalExhaustion ==
    [][\A c \in Calls :
          (GwRetryResponse(c, 401) \/ GwRefreshResponse(c, FALSE, Absent))
              => SessionCleared']_vars

\* C6: tenant binding provenance -- the stored tenant binding always equals
\* the tenant claim of the stored access credential (none when there is no
\* credential or no claim).
C6_TenantProvenance == ls_tenant = ClaimOf(ls_access)

\* C7: no tenant claim means not tenant-bound -- while the stored credential
\* has no tenant claim there is no stored binding, and a request dispatched
\* with a credential without tenant claim carries no tenant header.
C7_NoClaimNotBound ==
    /\ (ls_access # NoTok /\ ~Truthy(ls_access.tenant)) => ls_tenant = NoItem
    /\ \A c \in Calls :
          (call[c].pc \in {"wait1", "wait2"} /\ call[c].hdrAuth # NoTok
              /\ ~Truthy(call[c].hdrAuth.tenant))
            => call[c].hdrTenant = NoHeader

\* the step in which call c ends by sending the user to the login page
ForcedRelogin(c) ==
    /\ call[c].pc # "done"
    /\ call'[c].pc = "done"
    /\ call'[c].result \in {"Unauthorized", "AuthExpired"}

\* C8: seamless renewal -- a call made while a refresh credential is stored
\* forces a re-login only in the step in which its renewal fails.
C8_SeamlessRenewal ==
    [][\A c \in Calls :
          (ForcedRelogin(c) /\ ls_refresh # 0) => call[c].pc = "waitRefresh"]_vars

\* C9: fail fast -- a call made without a stored access credential
\* dispatches no request.
C9_FailFast == \A c \in Calls : call[c].sent >= 1 => call[c].cred # 0

\* C10: complete destruction -- when logout has run its course the store
\* holds no access credential, no refresh credential and no tenant binding.
C10_LogoutClearsAll ==
    [][(LogoutFinish \/ (LogoutStart /\ ls_refresh = 0)) => SessionCleared']_vars

\* ------------------------------------------------------------------------
\* Properties of the invitation state machine
\* ------------------------------------------------------------------------
\* the record that carries token tok has been accepted
TokenAccepted(tok) == \E i \in ByToken(tok) : inv[i].status = "accepted"

\* the step in which accept transaction a ends
AcceptEnds(a) == acc'[a] # acc[a] /\ acc'[a].pc = "done"

\* C2: idempotent terminality -- no invitation's membership is provisioned
\* more than once, and every accept that ends when the record of its token
\* is already accepted ends with AlreadyConsumed.
C2_IdempotentTerminality ==
    /\ [](\A i \in 1..MaxInv : provisioned[i] <= 1)
    /\ [][\A a \in Acceptors :
            (AcceptEnds(a) /\ TokenAccepted(acc'[a].tok))
                => acc'[a].result = "AlreadyConsumed"]_vars

\* one accept succeeded and a later accept with the same token was refused
C2_Witness ==
    \E a, b \in Acceptors :
        /\ a # b /\ acc[a].tok = acc[b].tok
        /\ acc[a].pc = "done" /\ acc[a].result = "Success"
        /\ acc[b].pc = "done" /\ acc[b].result = "AlreadyConsumed"
        /\ acc[b].id = 0
        /\ \E i \in ByToken(acc[a].tok) : provisioned[i] = 1

\* both transactions read the record of the same token while it was pending
\* and not expired, both have written, and the record was neither cancelled
\* nor given a new token meanwhile
BothPassedCheck(a, b) ==
    /\ a # b
    /\ acc[a].pc = "done" /\ acc[b].pc = "done"
    /\ acc[a].id # 0 /\ acc[b].id # 0
    /\ acc[a].tok = acc[b].tok
    /\ inv[acc[a].id].token = acc[a].tok
    /\ inv[acc[a].id].status = "accepted"

\* C3: concurrent accept -- of two interleaved accepts of one pending,
\* non-expired token exactly one succeeds and provisions; the other gets
\* AlreadyConsumed.
C3_ConcurrentAccept ==
    \A a, b \in Acceptors :
        BothPassedCheck(a, b)
            => /\ {acc[a].result, acc[b].result} = {"Success", "AlreadyConsumed"}
               /\ provisioned[acc[a].id] = 1

C3_Witness ==
    \E a, b \in Acceptors :
        BothPassedCheck(a, b) /\ acc[a].result = "Success"
            /\ acc[b].result = "AlreadyConsumed"

\* a token the server generated that no record carries any more: resend
\* replaced it
Superseded(tok) == tok \in 1..(nextTok - 1) /\ ByToken(tok) = {}

\* the step in which accept transaction a reads and checks
AcceptReads(a) == acc[a].pc \in {"idle", "done"} /\ acc'[a] # acc[a]

\* C11: resend invalidation -- a token replaced by resend stays replaced, and
\* no accept that ends with a replaced token, or with the token of an
\* accepted record, succeeds.
C11_ResendInvalidation ==
    [][/\ \A tok \in 1..MaxInvTok : Superseded(tok) => Superseded(tok)'
       /\ \A a \in Acceptors :
            (AcceptEnds(a)
                /\ (Superseded(acc'[a].tok) \/ TokenAccepted(acc'[a].tok)))
              => acc'[a].result # "Success"]_vars

\* an accept read the record while its token was current, the record was
\* given a new token, and the accept's write was refused
C11_Witness ==
    \E a \in Acceptors :
        /\ acc[a].pc = "done" /\ acc[a].id # 0
        /\ Superseded(acc[a].tok)
        /\ acc[a].result = "NotFound"
        /\ inv[acc[a].id].status = "pending"

\* C12: cancellation is terminal -- a cancelled record stays cancelled and is
\* never provisioned under any later step, and every accept that ends with
\* the token of a cancelled record ends with AlreadyConsumed.
C12_CancelTerminal ==
    [][/\ \A i \in 1..Len(inv) :
            inv[i].status = "cancelled"
              => inv'[i].status = "cancelled"
                 /\ provisioned'[i] = provisioned[i]
       /\ \A a \in Acceptors :
            (AcceptEnds(a)
                /\ \E i \in ByToken(acc'[a].tok) : inv[i].status = "cancelled")
              => acc'[a].result = "AlreadyConsumed"]_vars

\* an accept read the record while it was pending, the record was cancelled,
\* and the accept's write was refused
C12_Witness ==
    \E a \in Acceptors :
        /\ acc[a].pc = "done" /\ acc[a].id # 0
        /\ inv[acc[a].id].status = "cancelled"
        /\ inv[acc[a].id].token = acc[a].tok
        /\ acc[a].result = "AlreadyConsumed"
        /\ provisioned[acc[a].id] = 0

\* C13: expiry boundary -- an accept that reads a pending record strictly
\* before its expiresAt passes the check, and succeeds when the record is
\* still that pending record at the write; one that reads it strictly after
\* expiresAt ends with Expired; and the invitation page reports the record
\* expired exactly when the accept does.
C13_ExpiryBoundary ==
    [][\A a \in Acceptors :
         /\ AcceptReads(a) =>
              \A i \in ByToken(acc'[a].tok) :
                 inv[i].status = "pending" =>
                    /\ now < inv[i].expiresAt => acc'[a].pc = "checked"
                    /\ now > inv[i].expiresAt => acc'[a].result = "Expired"
                    /\ isExpired([expires_at |-> inv[i].expiresAt])
                          <=> acc'[a].result = "Expired"
         /\ (acc[a].pc = "checked" /\ AcceptEnds(a)
                /\ inv[acc[a].id].token = acc[a].tok
                /\ inv[acc[a].id].status = "pending")
              => acc'[a].result = "Success"]_vars

\* one accept succeeded on a record that is not yet expired, and another
\* accept of a pending record ended with Expired
C13_Witness ==
    \E a, b \in Acceptors :
        /\ acc[a].pc = "done" /\ acc[a].result = "Success"
        /\ now < inv[acc[a].id].expiresAt
        /\ acc[b].pc = "done" /\ acc[b].result = "Expired"
        /\ \E i \in ByToken(acc[b].tok) : inv[i].status = "pending"

\* C14: accept precondition -- the check of an accept ends with NotFound when
\* no record carries the token, with AlreadyConsumed when the record is not
\* pending, with Expired when it is pending and now > expiresAt, and passes
\* otherwise; an accept succeeds only after passing the check and only on a
\* record that still carries the token and is pending; and a record becomes
\* accepted only in the step of a successful accept.
C14_AcceptPrecondition ==
    [][/\ \A a \in Acceptors :
            /\ AcceptReads(a) =>
                 LET ids == ByToken(acc'[a].tok)
                 IN  /\ ids = {} => acc'[a].result = "NotFound"
                     /\ \A i \in ids :
                          /\ inv[i].status # "pending"
                               => acc'[a].result = "AlreadyConsumed"
                          /\ (inv[i].status = "pending" /\ now > inv[i].expiresAt)
                               => acc'[a].result = "Expired"
                          /\ (inv[i].status = "pending" /\ now <= inv[i].expiresAt)
                               => acc'[a].pc = "checked" /\ acc'[a].id = i
            /\ (AcceptEnds(a) /\ acc'[a].result = "Success")
                 => /\ acc[a].pc = "checked"
                    /\ inv[acc[a].id].token = acc[a].tok
                    /\ inv[acc[a].id].status = "pending"
       /\ \A i \in 1..Len(inv) :
            (inv[i].status # "accepted" /\ inv'[i].status = "accepted")
              => \E a \in Acceptors :
                    /\ AcceptEnds(a) /\ acc'[a].result = "Success"
                    /\ acc[a].id = i]_vars

\* the four outcomes of the check have all happened: of two accepts one ended
\* with Expired on a pending record and the other succeeded
C14_Witness ==
    \E a, b \in Acceptors :
        /\ acc[a].pc = "done" /\ acc[a].result = "Expired"
        /\ \E i \in ByToken(acc[a].tok) :
              inv[i].status = "pending" /\ now > inv[i].expiresAt
        /\ acc[b].pc = "done" /\ acc[b].result = "Success"
        /\ inv[acc[b].id].status = "accepted"

\* an effectively pending invitation exists for the pair
HasActive(who) ==
    \E i \in 1..Len(inv) : inv[i].who = who /\ EffectiveStatus(inv[i]) = "pending"

\* C15: duplicate active invitation -- no two effectively pending invitations
\* exist for one (email, tenantId); a create for a pair that has one fails
\* with DuplicateActiveInvitation and adds nothing; a create for a pair that
\* has none (its earlier ones expired, cancelled or accepted) adds a record.
C15_DuplicateActive ==
    /\ [](\A i, j \in 1..Len(inv) :
            (i # j /\ inv[i].who = inv[j].who)
              => ~(EffectiveStatus(inv[i]) = "pending"
                     /\ EffectiveStatus(inv[j]) = "pending"))
    /\ [][\A who \in Invitees :
            Create(who) =>
               IF HasActive(who)
               THEN lastResult' = "DuplicateActiveInvitation" /\ inv' = inv
               ELSE lastResult' = "Created" /\ Len(inv') = Len(inv) + 1]_vars

\* a create was refused while the pair's invitation was active
C15_Witness ==
    /\ lastResult = "DuplicateActiveInvitation"
    /\ Len(inv) = 1
    /\ inv[1].status = "pending" /\ now <= inv[1].expiresAt

\* C16: resend and cancel require effective pending -- on a record that is
\* not effectively pending (stored accepted or cancelled, or stored pending
\* past its expiresAt), resend and cancel end with NotPending and leave the
\* record's token, expiresAt and status as they were.
C16_RequireEffectivePending ==
    [][\A i \in 1..Len(inv) :
          (EffectiveStatus(inv[i]) # "pending" /\ (Resend(i) \/ Cancel(i)))
            => /\ lastResult' = "NotPending"
               /\ inv'[i].token = inv[i].token
               /\ inv'[i].expiresAt = inv[i].expiresAt
               /\ inv'[i].status = inv[i].status]_vars

\* a resend or cancel was refused on a record stored pending but expired
C16_Witness ==
    /\ lastResult = "NotPending"
    /\ \E i \in 1..Len(inv) : inv[i].status = "pending" /\ now > inv[i].expiresAt

\* ------------------------------------------------------------------------
\* Properties of the pages
\* ------------------------------------------------------------------------
\* C17: effective status on reads -- for an invitation stored pending whose
\* expiresAt has passed, the table's badge does not show the pending label
\* and the actions menu does not offer resend and cancel.
C17_EffectiveStatusShown ==
    \A k \in 1..Len(users) :
        (inv[k].status = "pending" /\ now > inv[k].expiresAt)
          => /\ getStatusConfig(users[k].invitation_status) # "Invitation Sent"
             /\ ~PendingActionsShown(users[k])

\* C18: anti-forgery on return -- the callback page posts the code (and the
\* invitation token) only when the state it got back is the state this
\* browser sent before the redirect.
C18_AntiForgery ==
    cb.posts >= 1 => (sentState # NoState /\ cb.state = sentState)

\* C19: tenant match at done -- when the handshake of an invitation is done,
\* the tenant claim of the stored credential and the stored tenant binding
\* are the invitation's tenant.
C19_TenantMatch ==
    cb.pc = "done" =>
        \A i \in ByToken(cb.invitationToken) :
            ClaimOf(ls_access) = inv[i].who[2] /\ ls_tenant = inv[i].who[2]

\* C20: single use of the authorization code -- within one life of the
\* callback page the code is posted at most once, and an error answer to the
\* post ends the handler in failed.
C20_SingleUse ==
    /\ cb.posts <= 1
    /\ cb.answer = "error" => (cb.pc = "failed" /\ cb.posts = 1)
    /\ cb.pc = "exchanging" => cb.posts = 1

\* the backend refused the code and the page ended in failed
C20_Witness ==
    /\ cb.pc = "failed" /\ cb.answer = "error" /\ cb.posts = 1
    /\ cb.code \in Codes /\ location = "/login"

\* C21: state round trip. When the callback is handed back, unchanged, the
\* state value handleSsoLogin built, the invitation token it decodes (and
\* posts to the server) is the token of the invitation link.
C21_StateRoundTrip ==
    (cb.posts >= 1 /\ sentState # NoState /\ cb.state = sentState)
        => cb.invitationToken = sentState.invitation_token

\* C22: defensive state decoding. A returned state value that cannot be
\* decoded, or that has not the expected shape, is rejected: the handler
\* ends in failed and has not called the server callback.
C22_DefensiveDecoding ==
    (cb.state # NoState
       /\ ~(cb.state.enc = "b64json" /\ cb.state.invitation_token # 0))
        => (cb.pc = "failed" /\ cb.posts = 0)

\* C23: missing link token. A page loaded from a link without a token shows
\* "Invalid Invitation" and has sent no lookup request, and no step taken
\* from that page leaves for the identity provider or sends a state value.
C23_MissingLinkToken ==
    [][/\ (page'.mounted /\ page'.token = 0)
            => (PageView' = "invalid" /\ page'.lookups = 0)
       /\ (page.mounted /\ page.token = 0)
            => (location' # "provider" /\ sentState' = sentState)]_vars

C23_Witness ==
    page.mounted /\ page.token = 0 /\ PageView = "invalid" /\ page.lookups = 0

\* C24: lookup outcome mapping. Once the page has left loading: a NotFound
\* or AlreadyConsumed answer shows invalid, an Expired answer or metadata
\* whose expires_at has passed shows expired, and ready is shown only after
\* a successful lookup.
C24_LookupOutcomeMapping ==
    (page.mounted /\ ~page.loading /\ page.token # 0) =>
        /\ (PageView = "ready" => page.answer = "Ok")
        /\ (page.answer \in {"NotFound", "AlreadyConsumed"}
              => PageView = "invalid")
        /\ (page.answer = "Expired" => PageView = "expired")
        /\ ((page.answer = "Ok" /\ isExpired(page.invitation))
              => PageView = "expired")

\* C25: failed login stores nothing -- a login the provider refuses returns
\* an error and leaves the three stored items as they were; a login the
\* provider accepts stores a session whose tenant binding is the tenant
\* claim of the stored access credential.
C25_FailedLoginStoresNothing ==
    [][\A g \in GrantAnswers :
          login(g[1], g[2])
            => IF g[1]
               THEN /\ ls_access' = Jwt(issued', g[2])
                    /\ ls_tenant' = ClaimOf(ls_access')
               ELSE /\ UNCHANGED store
                    /\ loginResult' = "error"]_vars

\* C26: requests carry the current credential -- a request the table sends
\* while the session store holds an access credential carries that
\* credential in its Authorization header and, when the store holds a tenant
\* binding, the tenant header with that binding.
C26_RequestsCarryCredential ==
    (req.sent /\ req.held # NoTok)
        => /\ req.hdrAuth = req.held
           /\ (Truthy(req.heldTenant) => req.hdrTenant = req.heldTenant)

\* C27: no torn session -- in every state, which is every point at which
\* another operation can read the store, the stored access and refresh
\* credential come from one and the same grant (or both are absent), and
\* the binding stored for a credential with a tenant claim is that claim:
\* the store never holds one renewal's access credential next to another
\* grant's refresh credential or tenant.
C27_NoTornSession ==
    /\ (ls_access = NoTok) <=> (ls_refresh = 0)
    /\ ls_access # NoTok => ls_refresh = ls_access.id
    /\ (ls_access # NoTok /\ Truthy(ls_access.tenant))
          => ls_tenant = ls_access.tenant

\* one call's renewal has completed while the other call's is in flight
C27_Witness ==
    /\ call["c1"].pc = "wait2"
    /\ call["c2"].pc = "waitRefresh"
    /\ ls_access = call["c1"].hdrAuth
    /\ ls_refresh = ls_access.id

\* C30: clear is idempotent -- a logout run on a store that holds no access
\* and no refresh credential (as a first logout leaves it) changes none of
\* the stored items and ends at once, without a request to the identity
\* provider's logout endpoint.
C30_ClearIdempotent ==
    [][(LogoutStart /\ ls_access = NoTok /\ ls_refresh = 0)
          => (UNCHANGED store /\ ~lo')]_vars

\* a session was established by login and has been logged out: the state a
\* second logout starts from and, as it changes nothing, ends in
C30_Witness ==
    /\ loginResult = "success"
    /\ location = "/"
    /\ issued >= 1
    /\ ls_access = NoTok
    /\ ls_refresh = 0
    /\ ~lo

\* C28: malformed credentials -- a decoder handed a string that is not a
\* well-formed credential returns its decode error as a value, and neither a
\* decoder nor a caller that derives the tenant from stored text lets an
\* exception escape.
C28_MalformedNeverThrows ==
    /\ probe.outcome # "throws"
    /\ (probe.fn \in {"decodeTokenPayload", "AuthProvider.decodeTokenPayload"}
          /\ ~Decodable(probe.tok))
          => probe.outcome = "null"

\* C29: the handshake never stalls -- from loading the invitation page
\* eventually shows ready, invalid or expired, and from exchanging the
\* callback page eventually reaches done or failed, also when the lookup or
\* the callback request is never answered.
C29_NeverStalls ==
    /\ (PageView = "loading") ~> (PageView \in {"ready", "invalid", "expired"})
    /\ (cb.pc = "exchanging") ~> (cb.pc \in {"done", "failed"})

\* C31: retry uses the renewed credential -- the retried request of a
\* gateway call carries the access credential the renewal returned, not the
\* rejected one, and its tenant header is rebuilt from that credential:
\* the credential's tenant claim when it has one, no header otherwise.
C31_RetryUsesRenewed ==
    \A c \in Calls :
        (call[c].pc = "wait2" /\ call[c].gw = "auth")
          => /\ call[c].hdrAuth # NoTok
             /\ call[c].hdrAuth.id # call[c].cred
             /\ call[c].hdrTenant = IF Truthy(call[c].hdrAuth.tenant)
                                    THEN call[c].hdrAuth.tenant
                                    ELSE NoHeader

\* C32: resend frame -- a successful resend gives the record, in one step, a
\* token no record has carried before and the expiry now + Ttl; after it no
\* record carries the old token; the record's status stays pending, its
\* email and tenant stay what they were, and every other record is untouched.
C32_ResendFrame ==
    [][\A i \in 1..Len(inv) :
          (Resend(i) /\ EffectiveStatus(inv[i]) = "pending")
            => /\ lastResult' = "Resent"
               /\ inv'[i].token \notin {inv[j].token : j \in 1..Len(inv)}
               /\ \A j \in 1..Len(inv') : inv'[j].token # inv[i].token
               /\ inv'[i].expiresAt = now + Ttl
               /\ inv'[i].status = "pending"
               /\ inv'[i].who = inv[i].who
               /\ Len(inv') = Len(inv)
               /\ \A j \in 1..Len(inv) : j # i => inv'[j] = inv[j]]_vars

\* a record was resent after the clock had advanced: it carries the newest
\* token and an expiry later than the one it was created with
C32_Witness ==
    /\ lastResult = "Resent"
    /\ now >= 1
    /\ \E i \in 1..Len(inv) :
          /\ inv[i].status = "pending"
          /\ inv[i].token = nextTok - 1
          /\ inv[i].expiresAt = now + Ttl

C39_StatusMonotone ==
    [][\A i \in 1..Len(inv') :
          /\ inv'[i].status \in {"pending", "accepted", "expired", "cancelled"}
          /\ (inv'[i].acceptedAt # NoDate) <=> (inv'[i].status = "accepted")
          /\ (i <= Len(inv) /\ inv'[i].status # inv[i].status)
                => inv[i].status = "pending"]_vars

\* where the handshake is: the callback page's position once its handler has
\* run, redirecting while the browser is at the identity provider, and the
\* branch the invitation page renders otherwise
Phase ==
    IF cb.pc \in {"exchanging", "done", "failed"} THEN cb.pc
    ELSE IF location = "provider" THEN "redirecting"
    ELSE PageView

\* the step in which the invitation link is opened: a new page lifecycle
OpensInvitationLink == page'.mounted /\ cb' = IdleCallback /\ page' # page

\* the step in which the callback page refuses its URL without an exchange
RefusesCallback == cb'.pc = "failed" /\ cb'.posts = 0 /\ cb' # cb

\* C34: handshake transition order -- apart from opening an invitation link,
\* which starts a lifecycle, and from a callback URL that is refused, the
\* handshake only moves loading -> {ready, invalid, expired} -> redirecting
\* -> exchanging -> {done, failed}: the browser leaves for the identity
\* provider only from ready, exchanging is entered only on the return from
\* the provider, and invalid, expired, done and failed are left by no step.
C34_TransitionOrder ==
    [][(Phase' # Phase /\ ~OpensInvitationLink /\ ~RefusesCallback)
          => \/ Phase = "loading" /\ Phase' \in {"ready", "invalid", "expired"}
             \/ Phase = "ready" /\ Phase' = "redirecting"
             \/ Phase = "redirecting" /\ Phase' = "exchanging"
             \/ Phase = "exchanging" /\ Phase' \in {"done", "failed"}]_vars

\* C35: logout wins over an in-flight renewal -- when the answer to a
\* gateway call's refresh grant arrives after the store was emptied by a
\* logout, the step that handles it writes no access credential, no refresh
\* credential and no tenant binding.
C35_LogoutWins ==
    [][\A c \in Calls :
          (call[c].pc = "waitRefresh" /\ call'[c] # call[c]
              /\ ls_access = NoTok /\ ls_refresh = 0)
            => UNCHANGED store]_vars

\* the client at rest: no gateway call, renewal, logout or callback exchange
\* is waiting for an answer
Quiescent ==
    /\ \A c \in Calls : call[c].pc \in {"idle", "done"}
    /\ ~rf
    /\ ~lo
    /\ cb.pc # "exchanging"

\* C36: one live session -- in every state where the client is at rest, the
\* access credential the auth context exposes and the one persisted in the
\* session store are the same credential, or both are absent.
C36_OneLiveSession ==
    Quiescent => token = ls_access

\* C37: credentials of one grant -- the step in which a successful SSO
\* callback stores its session leaves an access and a refresh credential of
\* the same answer in the store, or no refresh credential when the answer
\* carried none; it never leaves an earlier refresh credential next to the
\* new access credential.
C37_CredentialsOfOneGrant ==
    [][\A i \in CallbackInputs :
          (handleCallback(i[1], i[2], i[3], i[4], i[5], i[6])
              /\ issued' = issued + 1)
            => /\ ls_access'.id = issued'
               /\ ls_refresh' = IF i[5] THEN issued' ELSE 0]_vars

\* C38: the two credential decoders agree -- for every access credential the
\* tenant binding the login / refreshAccessToken path derives with the
\* AuthProvider's decoder is the one the gateway's renewal derives with the
\* module-level decoder, with and without a tenant claim.
C38_DecodersAgree ==
    /\ probe.fn = "AuthProvider.decodeTokenPayload"
          => probe.binding = GatewayBinding(probe.tok)
    /\ probe.fn = "decodeTokenPayload"
          => probe.binding = LoginBinding(probe.tok)
====
